---------------------------- MODULE Spec2Model ----------------------------
(***************************************************************************)
(* A model of the slab-to-countertop compositor of NaturalQuoteTracker:    *)
(*   src/slab_render.py            slab_to_countertop_replacement, main    *)
(*   src/attached_assets/replit_countertop_render/main.py   (the script)   *)
(*                                                                         *)
(* An image is a record [mode, w, h, px] with px a function from the       *)
(* coordinates (0..w-1) \X (0..h-1) to pixels; an RGBA pixel is            *)
(* <<r, g, b, a>>, an RGB pixel <<r, g, b>>, an L pixel a number 0..255.   *)
(* The image library is modelled by what its calls do to such images.      *)
(***************************************************************************)
EXTENDS Integers, Sequences, FiniteSets, TLC

\* ------------------------------------------------------------- bounds
\* Largest base (kitchen) image that is enumerated.
MaxW == 4
MaxH == 2
\* Largest texture (slab) image side.
MaxS == 2
\* Largest side of a mask whose size differs from the base image's.
MaxM == 2
\* Largest number of command-line words (program name included).
MaxArgc == 6

\* ------------------------------------------------------------- images
Names == {"kitchen", "slab", "mask"}

Coords(w, h) == (0 .. (w - 1)) \X (0 .. (h - 1))

NoImage == [mode |-> "none", w |-> 0, h |-> 0, px |-> << >>]

Min(a, b) == IF a <= b THEN a ELSE b

\* The colour stored in an input file at (col, row): a fixed test pattern that
\* gives neighbouring pixels different colours.
FileColour(name, col, row) ==
    IF name = "kitchen"
    THEN << (60 * col + 25 * row + 10) % 256,
            (35 * col + 80 * row + 200) % 256,
            (90 * col + 55 * row + 128) % 256 >>
    ELSE << (110 * col + 70 * row + 255) % 256,
            (45 * col + 130 * row + 40) % 256,
            (20 * col + 95 * row + 7) % 256 >>

\* The alpha stored in an RGBA input file at (col, row): opaque, transparent
\* and half-transparent pixels all occur.
FileAlpha(col, row) ==
    CASE (col + row) % 3 = 0 -> 0
      [] (col + row) % 3 = 1 -> 255
      [] OTHER -> 128

\* The intensity stored in a mask file at (col, row), by the file's pattern.
MaskPatterns == {"zero", "full", "flat", "ramp"}

FileIntensity(pat, col, row) ==
    CASE pat = "zero" -> 0
      [] pat = "full" -> 255
      [] pat = "flat" -> 100
      [] OTHER -> CASE (col + row) % 3 = 0 -> 255
                    [] (col + row) % 3 = 1 -> 0
                    [] OTHER -> 77

\* The files the program may be pointed at.
NoFile(st) == [status |-> st, mode |-> "none", w |-> 0, h |-> 0, pat |-> "none"]

ColourFiles(maxw, maxh) ==
    [status : {"ok"}, mode : {"RGB", "RGBA"}, w : 1 .. maxw, h : 1 .. maxh,
     pat : {"none"}]

MaskFiles(sizes) ==
    { [status |-> "ok", mode |-> "L", w |-> s[1], h |-> s[2], pat |-> p] :
        s \in sizes, p \in MaskPatterns }

BadFiles == { NoFile(st) : st \in {"missing", "unreadable", "corrupt"} }


\* ------------------------------------------------- the image library
\* Image.open(path).convert("RGBA") on a readable file: an RGB file (a
\* JPEG) gets alpha 255, an RGBA file keeps the alpha it stores.
OpenRGBA(name, f) ==
    [mode |-> "RGBA", w |-> f.w, h |-> f.h,
     px |-> [c \in Coords(f.w, f.h) |->
               LET col == FileColour(name, c[1], c[2])
               IN  << col[1], col[2], col[3],
                      IF f.mode = "RGBA" THEN FileAlpha(c[1], c[2]) ELSE 255 >>]]

\* Image.open(path).convert("L") on a readable greyscale file.
OpenL(f) ==
    [mode |-> "L", w |-> f.w, h |-> f.h,
     px |-> [c \in Coords(f.w, f.h) |-> FileIntensity(f.pat, c[1], c[2])]]

\* Whether Image.open(...).convert(...) raises on the file.
OpenRaises(f) == f.status # "ok"

\* os.path.exists(path).
ExistsAlways(f) == TRUE

Exists(f) == f.status # "missing"

\* im.resize((w, h)): a copy when the size is unchanged, otherwise every
\* output pixel is sampled from the source pixel under its centre.  The
\* library refuses a size with a side below 1 (ResizeRaises).
ResizeRaises(w, h) == w < 1 \/ h < 1

ResizeSwapped(im, w, h) ==
    [mode |-> im.mode, w |-> h, h |-> w,
     px |-> [c \in Coords(h, w) |->
               im.px[<< ((2 * c[1] + 1) * im.w) \div (2 * h),
                        ((2 * c[2] + 1) * im.h) \div (2 * w) >>]]]

ResizeCover(im, w, h) ==
    LET P  == IF w * im.h > h * im.w THEN w * im.h ELSE h * im.w
        rw == (3 * P) \div (2 * im.h)
        rh == (3 * P) \div (2 * im.w)
        cx == (rw - w) \div 2
        cy == (rh - h) \div 2
    IN  [mode |-> im.mode, w |-> w, h |-> h,
         px |-> [c \in Coords(w, h) |->
                   im.px[<< ((2 * (c[1] + cx) + 1) * im.w) \div (2 * rw),
                            ((2 * (c[2] + cy) + 1) * im.h) \div (2 * rh) >>]]]

Resize(im, w, h) ==
    [mode |-> im.mode, w |-> w, h |-> h,
     px |-> [c \in Coords(w, h) |->
               im.px[<< ((2 * c[1] + 1) * im.w) \div (2 * w),
                        ((2 * c[2] + 1) * im.h) \div (2 * h) >>]]]

\* Image.new("RGBA", (w, h)): every pixel transparent black.
NewRGBA(w, h) ==
    [mode |-> "RGBA", w |-> w, h |-> h,
     px |-> [c \in Coords(w, h) |-> << 0, 0, 0, 0 >>]]

\* canvas.paste(im, (ox, oy)) without a mask: the pixels of im replace the
\* canvas pixels under it, alpha included; what falls outside is dropped.
Paste(canvas, im, ox, oy) ==
    [canvas EXCEPT !.px =
        [c \in Coords(canvas.w, canvas.h) |->
            IF /\ c[1] >= ox /\ c[1] < ox + im.w
               /\ c[2] >= oy /\ c[2] < oy + im.h
            THEN im.px[<< c[1] - ox, c[2] - oy >>]
            ELSE canvas.px[c]]]

\* The crop box of line 62, as (left, upper, right, lower).
CropBoxWrongSize(cx, cy, kw, kh) == << cx, cy, kw, kh >>

CropBox(cx, cy, kw, kh) == << cx, cy, cx + kw, cy + kh >>

\* im.crop(box): an image of the size of the box; a pixel of the box that
\* lies outside im is transparent black.
Crop(im, box) ==
    LET w == box[3] - box[1]
        h == box[4] - box[2]
    IN  [mode |-> im.mode, w |-> w, h |-> h,
         px |-> [c \in Coords(w, h) |->
                   LET sx == box[1] + c[1]
                       sy == box[2] + c[2]
                   IN  IF sx >= 0 /\ sx < im.w /\ sy >= 0 /\ sy < im.h
                       THEN im.px[<< sx, sy >>]
                       ELSE << 0, 0, 0, 0 >>]]

\* slab_array[:, :, 3] = alpha, for one pixel: the alpha channel becomes
\* the mask value, the colour channels stay.
SetAlphaKeepsOld(p, m) == p

SetAlphaPremultiplied(p, m) ==
    << (p[1] * m) \div 255, (p[2] * m) \div 255, (p[3] * m) \div 255, m >>

SetAlpha(p, m) == << p[1], p[2], p[3], m >>

\* The library's division by 255 by shifts: ((a >> 8) + a) >> 8.
ShiftForDiv255(a) == ((a \div 256) + a) \div 256

\* Image.alpha_composite(dst, src) for one pixel: the library's integer
\* "over" operator with 7 extra bits of precision.  A source pixel of
\* alpha 0 copies the destination pixel.
BlendChannel(s, d, coef1, coef2) ==
    ShiftForDiv255(s * coef1 + d * coef2 + 128 * 128) \div 128

AlphaCompositePixelDiv256(dst, src) ==
    << (src[1] * src[4] + dst[1] * (255 - src[4])) \div 256,
       (src[2] * src[4] + dst[2] * (255 - src[4])) \div 256,
       (src[3] * src[4] + dst[3] * (255 - src[4])) \div 256,
       255 >>

AlphaCompositePixel(dst, src) ==
    IF src[4] = 0
    THEN dst
    ELSE LET blend   == dst[4] * (255 - src[4])
             outa255 == src[4] * 255 + blend
             coef1   == (src[4] * 255 * 255 * 128) \div outa255
             coef2   == 255 * 128 - coef1
         IN  << BlendChannel(src[1], dst[1], coef1, coef2),
                BlendChannel(src[2], dst[2], coef1, coef2),
                BlendChannel(src[3], dst[3], coef1, coef2),
                ShiftForDiv255(outa255 + 128) >>

\* Image.alpha_composite raises unless both images have the same size.
SameSize(a, b) == a.w = b.w /\ a.h = b.h

AlphaComposite(dst, src) ==
    [mode |-> "RGBA", w |-> dst.w, h |-> dst.h,
     px |-> [c \in Coords(dst.w, dst.h) |->
               AlphaCompositePixel(dst.px[c], src.px[c])]]

\* im.convert("RGB") of an RGBA pixel: the alpha channel is dropped.
ToRGB(p) == << p[1], p[2], p[3] >>

ConvertRGB(im) ==
    [mode |-> "RGB", w |-> im.w, h |-> im.h,
     px |-> [c \in Coords(im.w, im.h) |-> ToRGB(im.px[c])]]

\* Image.composite(im1, im2, mask) for one pixel: every channel, alpha
\* included, is the mask-weighted mean of the two, rounded.
MulDiv255(t) == ((t + 128) + ((t + 128) \div 256)) \div 256

CompositePixel(p1, p2, m) ==
    [i \in 1 .. 4 |-> MulDiv255(p1[i] * m + p2[i] * (255 - m))]

Composite(im1, im2, msk) ==
    [mode |-> "RGBA", w |-> im2.w, h |-> im2.h,
     px |-> [c \in Coords(im2.w, im2.h) |->
               CompositePixel(im1.px[c], im2.px[c], msk.px[c])]]


\* ---------------------------------------------------------- the state
VARIABLES
    \* the environment: which program runs, its arguments, the input files
    variant, argc, files,
    \* main() of slab_render.py, and the process's exit code (-1: running)
    mainPc, checked, exitCode,
    \* slab_to_countertop_replacement: position, error raised, return value
    pc, err, returned, propagated, calls,
    \* its local variables, named as in the source
    kitchen, slab, mask,
    target_slab_width, target_slab_height, slab_scaled,
    tiles_x, tiles_y, slab_tiled, x, y,
    crop_x, crop_y, slab_resized, mask_resized, slab_masked,
    result, final_result,
    \* what the run did to the world
    outFile, saveCount, decodeAttempts,
    \* history: the stages the current invocation has entered, the paste
    \* offsets of its loop so far, and what an earlier invocation built
    stages, pasteLog, prevRun,
    \* two invocations of the function running at once: their arguments,
    \* the files on the disk they share, before the first call and now, and
    \* each one's frame of locals
    args, disk0, disk, job,
    \* the sound scripts: the machine they run on, the position in the
    \* script, the loop variable of play_sound, the commands handed to
    \* "which", the processes started and those not waited for, the value the
    \* helper returned, the calls of play_with_ffmpeg, the exit code of the
    \* process, and what notify_task_complete printed
    snd, sndPc, player, probed, launched, running, played, fallbacks,
    sndExit, notifyOut

envVars  == << variant, argc, files >>
mainVars == << mainPc, checked, exitCode >>
ctlVars  == << pc, err, returned, propagated, calls >>
loadVars == << kitchen, slab, mask, decodeAttempts >>
tileVars == << target_slab_width, target_slab_height, slab_scaled,
               tiles_x, tiles_y, slab_tiled, x, y >>
compVars == << crop_x, crop_y, slab_resized, mask_resized, slab_masked,
               result, final_result >>
outVars  == << outFile, saveCount >>

histVars == << stages, pasteLog, prevRun >>

parVars == << args, disk0, disk, job >>
sndVars == << snd, sndPc, player, probed, launched, running, played, fallbacks,
             sndExit, notifyOut >>
extVars == << parVars, sndVars >>

vars == << envVars, mainVars, ctlVars, loadVars, tileVars, compVars, outVars,
          histVars, extVars >>

\* len(sys.argv) that main() accepts: the program name and four paths.
ArgCount == 5

\* The order in which main() checks, and the function opens, the inputs.
PathOrder == << "kitchen", "slab", "mask" >>

\* What an invocation built, as a later invocation of the same caller
\* finds it: nothing before the first one.
NoRun == [tile |-> NoImage, tiles |-> << -1, -1 >>, crop |-> << -1, -1 >>,
          coverage |-> NoImage]

\* ------------------------------------------------- the initial states
\* Mask sizes: the base image's own size, and square sizes up to MaxM.
MaskSizes(kf) == { << kf.w, kf.h >> } \cup { << m, m >> : m \in 1 .. MaxM }

\* A direct call on three readable files of every enumerated size.
FullInputs ==
    { [n \in Names |-> CASE n = "kitchen" -> kf [] n = "slab" -> sf [] OTHER -> mf] :
        kf \in ColourFiles(MaxW, MaxH), sf \in ColourFiles(MaxS, MaxS),
        mf \in MaskFiles({ << w, h >> : w \in 1 .. MaxW, h \in 1 .. MaxH }
                           \cup { << m, m >> : m \in 1 .. MaxM }) }

\* Inputs of which any may be missing, unreadable or undecodable; the
\* readable ones have one fixed small size.
SmallKitchen == { f \in ColourFiles(2, 2) : f.w = 2 /\ f.h = 2 }
SmallSlab    == { f \in ColourFiles(1, 1) : f.mode = "RGB" }
SmallMask    == { f \in MaskFiles({ << 2, 2 >>, << 1, 1 >> }) : f.pat = "ramp" }

FaultyInputs ==
    [ kitchen : BadFiles \cup SmallKitchen,
      slab    : BadFiles \cup SmallSlab,
      mask    : BadFiles \cup SmallMask ]

\* A caller that calls the function twice on the same three paths; the
\* mask, which the coverage layer does not depend on, is all 255 and of the
\* base image's size.
RepeatInputs ==
    { f \in FullInputs :
        /\ f["mask"].pat = "full"
        /\ << f["mask"].w, f["mask"].h >> = << f["kitchen"].w, f["kitchen"].h >> }

\* Nothing of the compositor has run yet: main() is at its first line when
\* the command-line program is what runs, no local is assigned, nothing is
\* written.
Unstarted ==
    /\ mainPc = IF variant = "cli" THEN "start" ELSE "none"
    /\ checked = 0
    /\ exitCode = -1
    /\ pc = "idle"
    /\ err = "none"
    /\ returned = "none"
    /\ propagated = FALSE
    /\ calls = 0
    /\ kitchen = NoImage /\ slab = NoImage /\ mask = NoImage
    /\ target_slab_width = -1 /\ target_slab_height = -1
    /\ slab_scaled = NoImage
    /\ tiles_x = -1 /\ tiles_y = -1
    /\ slab_tiled = NoImage
    /\ x = 0 /\ y = 0
    /\ crop_x = -1 /\ crop_y = -1
    /\ slab_resized = NoImage /\ mask_resized = NoImage
    /\ slab_masked = NoImage
    /\ result = NoImage /\ final_result = NoImage
    /\ outFile = NoImage
    /\ saveCount = 0
    /\ decodeAttempts = {}
    /\ stages = << >>
    /\ pasteLog = << >>
    /\ prevRun = NoRun

\* No pair of concurrent invocations and no sound script is part of the run.
ParIdle ==
    /\ args = << >> /\ disk0 = << >> /\ disk = << >> /\ job = << >>

\* The machine a sound script runs on: which program is started; whether
\* python3 and play_completion_sound.py are there for the child of
\* notify_task_complete; whether the sound file exists; platform.system();
\* whether "which" itself can be run; the commands that are installed; the
\* exit status a launched player ends with; what importing and using pygame
\* or winsound does; what starting ffplay and ffmpeg does.
QuietMachine ==
    [prog |-> "none", python3 |-> "ok", script |-> "ok", file |-> "ok",
     system |-> "linux", which |-> TRUE, installed |-> {}, status |-> 0,
     pygame |-> "missing", winsound |-> "ok", ffplay |-> "ok", ffmpeg |-> "ok"]

SndIdle ==
    /\ snd = QuietMachine
    /\ sndPc = "none"
    /\ player = 0
    /\ probed = << >> /\ launched = << >> /\ running = {}
    /\ played = "none"
    /\ fallbacks = 0
    /\ sndExit = -1
    /\ notifyOut = "none"

\* A tall, one pixel wide slab over a small opaque base image, with a mask
\* of the base image's size.
TallInputs ==
    { [n \in Names |->
         CASE n = "kitchen" -> [status |-> "ok", mode |-> "RGB", w |-> 2, h |-> 1,
                                pat |-> "none"]
           [] n = "slab" -> [status |-> "ok", mode |-> "RGB", w |-> 1, h |-> 93,
                             pat |-> "none"]
           [] OTHER -> [status |-> "ok", mode |-> "L", w |-> 2, h |-> 1,
                        pat |-> p]] : p \in {"full", "ramp"} }

Init ==
    /\ variant \in {"cli", "direct", "script", "repeat"}
    /\ \/ /\ variant = "cli"
          /\ argc \in (ArgCount - 1) .. MaxArgc
          /\ files \in FaultyInputs
       \/ /\ variant = "direct"
          /\ argc = 0
          /\ files \in FaultyInputs \cup TallInputs \cup
                { f \in FullInputs :
                    << f["mask"].w, f["mask"].h >> \in MaskSizes(f["kitchen"]) }
       \/ /\ variant = "repeat"
          /\ argc = 0
          /\ files \in RepeatInputs
       \/ /\ variant = "script"
          /\ argc = 1
          /\ files \in FaultyInputs \cup
                { f \in FullInputs :
                    << f["mask"].w, f["mask"].h >> \in MaskSizes(f["kitchen"]) }
    /\ Unstarted
    /\ ParIdle
    /\ SndIdle


\* ------------------------------------------------ main(), slab_render.py
Exit(code) == mainPc' = "exited" /\ exitCode' = code

\* Lines 99-102: a wrong number of arguments prints the usage and exits 1.
MainUsageContinues ==
    /\ variant = "cli" /\ mainPc = "start"
    /\ argc # ArgCount
    /\ mainPc' = "check"
    /\ UNCHANGED << envVars, checked, exitCode, ctlVars, loadVars, tileVars,
                    compVars, outVars >>
    /\ UNCHANGED << stages, pasteLog, prevRun >>
    /\ UNCHANGED extVars

MainUsage ==
    /\ variant = "cli" /\ mainPc = "start"
    /\ argc # ArgCount
    /\ Exit(1)
    /\ UNCHANGED << envVars, checked, ctlVars, loadVars, tileVars, compVars, outVars >>
    /\ UNCHANGED << stages, pasteLog, prevRun >>
    /\ UNCHANGED extVars

\* Lines 104-107: the four paths are taken from sys.argv.
MainParse ==
    /\ variant = "cli" /\ mainPc = "start"
    /\ argc = ArgCount
    /\ mainPc' = "check"
    /\ UNCHANGED << envVars, checked, exitCode, ctlVars, loadVars, tileVars,
                    compVars, outVars >>
    /\ UNCHANGED << stages, pasteLog, prevRun >>
    /\ UNCHANGED extVars

\* Lines 110-113, one iteration: a path that does not exist exits 1.
MainCheckPathFirstOnly ==
    /\ mainPc = "check"
    /\ IF ~Exists(files[PathOrder[1]])
       THEN Exit(1) /\ UNCHANGED checked
       ELSE checked' = 1 /\ mainPc' = "call" /\ UNCHANGED exitCode
    /\ UNCHANGED << envVars, ctlVars, loadVars, tileVars, compVars, outVars >>
    /\ UNCHANGED << stages, pasteLog, prevRun >>
    /\ UNCHANGED extVars

MainCheckPath ==
    /\ mainPc = "check"
    /\ IF ~Exists(files[PathOrder[checked + 1]])
       THEN Exit(1) /\ UNCHANGED checked
       ELSE /\ checked' = checked + 1
            /\ mainPc' = IF checked + 1 = Len(PathOrder) THEN "call" ELSE "check"
            /\ UNCHANGED exitCode
    /\ UNCHANGED << envVars, ctlVars, loadVars, tileVars, compVars, outVars >>
    /\ UNCHANGED << stages, pasteLog, prevRun >>
    /\ UNCHANGED extVars

\* Line 121: the call of slab_to_countertop_replacement.
MainCall ==
    /\ mainPc = "call"
    /\ mainPc' = "wait"
    /\ pc' = "load_kitchen"
    /\ calls' = calls + 1
    /\ UNCHANGED << envVars, checked, exitCode, err, returned, propagated,
                    loadVars, tileVars, compVars, outVars >>
    /\ UNCHANGED << stages, pasteLog, prevRun >>
    /\ UNCHANGED extVars

\* Lines 123-127: success falls off the end (exit code 0), failure exits 1.
MainFinishIgnoresResult ==
    /\ mainPc = "wait" /\ pc = "done"
    /\ Exit(0)
    /\ UNCHANGED << envVars, checked, ctlVars, loadVars, tileVars, compVars, outVars >>
    /\ UNCHANGED << stages, pasteLog, prevRun >>
    /\ UNCHANGED extVars

MainFinish ==
    /\ mainPc = "wait" /\ pc = "done"
    /\ Exit(IF returned = "True" THEN 0 ELSE 1)
    /\ UNCHANGED << envVars, checked, ctlVars, loadVars, tileVars, compVars, outVars >>
    /\ UNCHANGED << stages, pasteLog, prevRun >>
    /\ UNCHANGED extVars

\* A caller other than main() calls the function on the three paths.
CallDirect ==
    /\ variant \in {"direct", "repeat"} /\ pc = "idle"
    /\ pc' = "load_kitchen"
    /\ calls' = calls + 1
    /\ UNCHANGED << envVars, mainVars, err, returned, propagated,
                    loadVars, tileVars, compVars, outVars >>
    /\ UNCHANGED << stages, pasteLog, prevRun >>
    /\ UNCHANGED extVars

\* The same caller calls the function a second time on the same paths.
\* The call gets a fresh frame: every local starts unassigned again; the
\* output file of the first call is still on disk.
CallAgain ==
    /\ variant = "repeat" /\ pc = "done" /\ calls = 1
    /\ prevRun' = [tile |-> slab_scaled, tiles |-> << tiles_x, tiles_y >>,
                   crop |-> << crop_x, crop_y >>, coverage |-> slab_resized]
    /\ pc' = "load_kitchen"
    /\ calls' = calls + 1
    /\ err' = "none" /\ returned' = "none"
    /\ kitchen' = NoImage /\ slab' = NoImage /\ mask' = NoImage
    /\ target_slab_width' = -1 /\ target_slab_height' = -1
    /\ slab_scaled' = NoImage
    /\ tiles_x' = -1 /\ tiles_y' = -1
    /\ slab_tiled' = NoImage
    /\ x' = 0 /\ y' = 0
    /\ crop_x' = -1 /\ crop_y' = -1
    /\ slab_resized' = NoImage /\ mask_resized' = NoImage
    /\ slab_masked' = NoImage
    /\ result' = NoImage /\ final_result' = NoImage
    /\ stages' = << >> /\ pasteLog' = << >>
    /\ UNCHANGED << envVars, mainVars, propagated, decodeAttempts, outVars >>
    /\ UNCHANGED extVars

\* ------------------------------- slab_to_countertop_replacement, the try
\* An exception raised inside the try block: control goes to line 93.
Raise(kind) == pc' = "except" /\ err' = kind

\* Image.open(path).convert(mode) of one input.  A missing or unreadable
\* file raises before the decoder runs; an undecodable one raises in it.
AttemptsAfter(name) ==
    IF files[name].status \in {"ok", "corrupt"}
    THEN decodeAttempts \cup {name}
    ELSE decodeAttempts

\* Line 29.
LoadKitchen ==
    /\ pc = "load_kitchen"
    /\ decodeAttempts' = AttemptsAfter("kitchen")
    /\ IF OpenRaises(files["kitchen"])
       THEN Raise("open") /\ UNCHANGED kitchen
       ELSE /\ kitchen' = OpenRGBA("kitchen", files["kitchen"])
            /\ pc' = "load_slab"
            /\ UNCHANGED err
    /\ UNCHANGED << envVars, mainVars, returned, propagated, calls, slab, mask,
                    tileVars, compVars, outVars >>
    /\ stages' = Append(stages, "Loaded")
    /\ UNCHANGED << pasteLog, prevRun >>
    /\ UNCHANGED extVars

\* Line 30.
LoadSlab ==
    /\ pc = "load_slab"
    /\ decodeAttempts' = AttemptsAfter("slab")
    /\ IF OpenRaises(files["slab"])
       THEN Raise("open") /\ UNCHANGED slab
       ELSE /\ slab' = OpenRGBA("slab", files["slab"])
            /\ pc' = "load_mask"
            /\ UNCHANGED err
    /\ UNCHANGED << envVars, mainVars, returned, propagated, calls, kitchen, mask,
                    tileVars, compVars, outVars >>
    /\ UNCHANGED << stages, pasteLog, prevRun >>
    /\ UNCHANGED extVars

\* Line 31.
LoadMask ==
    /\ pc = "load_mask"
    /\ decodeAttempts' = AttemptsAfter("mask")
    /\ IF OpenRaises(files["mask"])
       THEN Raise("open") /\ UNCHANGED mask
       ELSE /\ mask' = OpenL(files["mask"])
            /\ pc' = "target"
            /\ UNCHANGED err
    /\ UNCHANGED << envVars, mainVars, returned, propagated, calls, kitchen, slab,
                    tileVars, compVars, outVars >>
    /\ UNCHANGED << stages, pasteLog, prevRun >>
    /\ UNCHANGED extVars

\* Line 40: min(kitchen.width // 2, slab.width).
TileWidth(kw, sw) == Min(kw \div 2, sw)

\* Lines 35 and 41 divide twice in double precision.  The triples
\* (target_slab_width, slab.width, slab.height), with a slab at most 4 wide
\* and 100 high, for which the second quotient is rounded to just below
\* the whole number the exact quotient is, so that int() stops one short.
FloatFallsShort ==
    { << 3, 3, 59 >>, << 1, 1, 93 >>, << 2, 2, 93 >>, << 4, 4, 93 >>, <<
      1, 1, 99 >>, << 2, 2, 99 >>, << 4, 4, 99 >> }

\* Lines 35 and 41: int(target_slab_width / (slab.width / slab.height)).
TileHeight(tw, sw, sh) ==
    (tw * sh) \div sw - (IF << tw, sw, sh >> \in FloatFallsShort THEN 1 ELSE 0)

\* Lines 35-41.
TargetSize ==
    /\ pc = "target"
    /\ target_slab_width' = TileWidth(kitchen.w, slab.w)
    /\ target_slab_height' =
           TileHeight(TileWidth(kitchen.w, slab.w), slab.w, slab.h)
    /\ pc' = "scale"
    /\ UNCHANGED << envVars, mainVars, err, returned, propagated, calls, loadVars,
                    slab_scaled, tiles_x, tiles_y, slab_tiled, x, y,
                    compVars, outVars >>
    /\ stages' = Append(stages, "Covered")
    /\ UNCHANGED << pasteLog, prevRun >>
    /\ UNCHANGED extVars

\* Line 44.  A tile size with a side of 0 is refused by the library's
\* resize with a ValueError; a library that accepted it would hand back an
\* empty image, and line 47 or 48 would then divide by zero.
ScaleSlab ==
    /\ pc = "scale"
    /\ IF ResizeRaises(target_slab_width, target_slab_height)
       THEN \/ Raise("resize") /\ UNCHANGED slab_scaled
            \/ /\ slab_scaled' = [NoImage EXCEPT !.mode = "RGBA",
                                                 !.w = target_slab_width,
                                                 !.h = target_slab_height]
               /\ pc' = "tiles"
               /\ UNCHANGED err
       ELSE /\ slab_scaled' = Resize(slab, target_slab_width, target_slab_height)
            /\ pc' = "tiles"
            /\ UNCHANGED err
    /\ UNCHANGED << envVars, mainVars, returned, propagated, calls, loadVars,
                    target_slab_width, target_slab_height,
                    tiles_x, tiles_y, slab_tiled, x, y, compVars, outVars >>
    /\ UNCHANGED << stages, pasteLog, prevRun >>
    /\ UNCHANGED extVars

\* Lines 47-48: kitchen.width // target_slab_width + 2, and the same for
\* the height; a divisor of 0 raises ZeroDivisionError.
TileCountNoMargin(extent, tile) == extent \div tile

TileCountCeilPlusOne(extent, tile) == ((extent + tile - 1) \div tile) + 1

TileCount(extent, tile) == (extent \div tile) + 2

CountTilesGuarded ==
    /\ pc = "tiles"
    /\ tiles_x' = IF target_slab_width = 0 THEN 2
                  ELSE TileCount(kitchen.w, target_slab_width)
    /\ tiles_y' = IF target_slab_height = 0 THEN 2
                  ELSE TileCount(kitchen.h, target_slab_height)
    /\ pc' = "canvas"
    /\ UNCHANGED << envVars, mainVars, err, returned, propagated, calls, loadVars,
                    target_slab_width, target_slab_height, slab_scaled,
                    slab_tiled, x, y, compVars, outVars >>
    /\ UNCHANGED << stages, pasteLog, prevRun >>
    /\ UNCHANGED extVars

CountTiles ==
    /\ pc = "tiles"
    /\ IF target_slab_width = 0 \/ target_slab_height = 0
       THEN Raise("zerodiv") /\ UNCHANGED << tiles_x, tiles_y >>
       ELSE /\ tiles_x' = TileCount(kitchen.w, target_slab_width)
            /\ tiles_y' = TileCount(kitchen.h, target_slab_height)
            /\ pc' = "canvas"
            /\ UNCHANGED err
    /\ UNCHANGED << envVars, mainVars, returned, propagated, calls, loadVars,
                    target_slab_width, target_slab_height, slab_scaled,
                    slab_tiled, x, y, compVars, outVars >>
    /\ UNCHANGED << stages, pasteLog, prevRun >>
    /\ UNCHANGED extVars

\* Lines 50-51.
tiled_width  == tiles_x * target_slab_width
tiled_height == tiles_y * target_slab_height

\* Lines 50-53, and the entry of the loops of lines 55-56.
NewCanvas ==
    /\ pc = "canvas"
    /\ slab_tiled' = NewRGBA(tiled_width, tiled_height)
    /\ x' = 0 /\ y' = 0
    /\ pc' = "paste"
    /\ UNCHANGED << envVars, mainVars, err, returned, propagated, calls, loadVars,
                    target_slab_width, target_slab_height, slab_scaled,
                    tiles_x, tiles_y, compVars, outVars >>
    /\ pasteLog' = << >>
    /\ UNCHANGED << stages, prevRun >>
    /\ UNCHANGED extVars

\* Line 57: the offset of tile number i along an axis.
PasteOffsetOverlap(i, tile) == i * (tile - 1)

PasteOffset(i, tile) == i * tile

\* Lines 55-57, one iteration: x runs over range(tiles_x) outside, y over
\* range(tiles_y) inside.
PasteTileRestarts ==
    /\ pc = "paste"
    /\ slab_tiled' = Paste(slab_tiled, slab_scaled,
                           PasteOffset(x, target_slab_width),
                           PasteOffset(y, target_slab_height))
    /\ IF y + 1 < tiles_y
       THEN /\ y' = y + 1 /\ UNCHANGED << x, pc >>
            /\ pasteLog' = Append(pasteLog, << PasteOffset(x, target_slab_width),
                                               PasteOffset(y, target_slab_height) >>)
       ELSE IF x + 1 < tiles_x
            THEN /\ x' = x + 1 /\ y' = 0 /\ UNCHANGED pc
                 /\ pasteLog' = Append(pasteLog,
                                       << PasteOffset(x, target_slab_width),
                                          PasteOffset(y, target_slab_height) >>)
            ELSE /\ x' = 0 /\ y' = 0 /\ UNCHANGED pc
                 /\ pasteLog' = << >>
    /\ UNCHANGED << envVars, mainVars, err, returned, propagated, calls, loadVars,
                    target_slab_width, target_slab_height, slab_scaled,
                    tiles_x, tiles_y, compVars, outVars >>
    /\ UNCHANGED << stages, prevRun >>
    /\ UNCHANGED extVars

PasteTile ==
    /\ pc = "paste"
    /\ slab_tiled' = Paste(slab_tiled, slab_scaled,
                           PasteOffset(x, target_slab_width),
                           PasteOffset(y, target_slab_height))
    /\ pasteLog' = Append(pasteLog, << PasteOffset(x, target_slab_width),
                                       PasteOffset(y, target_slab_height) >>)
    /\ IF y + 1 < tiles_y
       THEN y' = y + 1 /\ UNCHANGED << x, pc >>
       ELSE IF x + 1 < tiles_x
            THEN x' = x + 1 /\ y' = 0 /\ UNCHANGED pc
            ELSE pc' = "crop" /\ UNCHANGED << x, y >>
    /\ UNCHANGED << envVars, mainVars, err, returned, propagated, calls, loadVars,
                    target_slab_width, target_slab_height, slab_scaled,
                    tiles_x, tiles_y, compVars, outVars >>
    /\ UNCHANGED << stages, prevRun >>
    /\ UNCHANGED extVars


\* Lines 60-61: (tiled extent - kitchen extent) // 2.
CropOffsetZero(tiled, extent) == 0

CropOffset(tiled, extent) == (tiled - extent) \div 2

\* Lines 60-62.
CropStepVariedOffset ==
    /\ pc = "crop"
    /\ \E ox \in 0 .. (tiled_width - kitchen.w), oy \in 0 .. (tiled_height - kitchen.h) :
          /\ crop_x' = ox /\ crop_y' = oy
          /\ slab_resized' = Crop(slab_tiled, CropBox(ox, oy, kitchen.w, kitchen.h))
    /\ pc' = "mask"
    /\ UNCHANGED << envVars, mainVars, err, returned, propagated, calls, loadVars,
                    tileVars, mask_resized, slab_masked, result, final_result,
                    outVars >>
    /\ UNCHANGED << stages, pasteLog, prevRun >>
    /\ UNCHANGED extVars

CropStep ==
    /\ pc = "crop"
    /\ crop_x' = CropOffset(tiled_width, kitchen.w)
    /\ crop_y' = CropOffset(tiled_height, kitchen.h)
    /\ slab_resized' =
           Crop(slab_tiled, CropBox(CropOffset(tiled_width, kitchen.w),
                                    CropOffset(tiled_height, kitchen.h),
                                    kitchen.w, kitchen.h))
    /\ pc' = "mask"
    /\ UNCHANGED << envVars, mainVars, err, returned, propagated, calls, loadVars,
                    tileVars, mask_resized, slab_masked, result, final_result,
                    outVars >>
    /\ UNCHANGED << stages, pasteLog, prevRun >>
    /\ UNCHANGED extVars

\* Lines 65-69: the mask is resized to the kitchen's size (mask_rgba, built
\* from it, is used by nothing).
ResizeMask ==
    /\ pc = "mask"
    /\ mask_resized' = Resize(mask, kitchen.w, kitchen.h)
    /\ pc' = "apply"
    /\ UNCHANGED << envVars, mainVars, err, returned, propagated, calls, loadVars,
                    tileVars, crop_x, crop_y, slab_resized, slab_masked, result,
                    final_result, outVars >>
    /\ stages' = Append(stages, "Masked")
    /\ UNCHANGED << pasteLog, prevRun >>
    /\ UNCHANGED extVars

\* Lines 72-78: the alpha channel of the copy of slab_resized is assigned
\* from the mask array (numpy raises when the shapes differ).
ApplyMask ==
    /\ pc = "apply"
    /\ IF ~SameSize(slab_resized, mask_resized)
       THEN Raise("shape") /\ UNCHANGED slab_masked
       ELSE /\ slab_masked' =
                  [slab_resized EXCEPT !.px =
                      [c \in Coords(slab_resized.w, slab_resized.h) |->
                          SetAlpha(slab_resized.px[c], mask_resized.px[c])]]
            /\ pc' = "composite"
            /\ UNCHANGED err
    /\ UNCHANGED << envVars, mainVars, returned, propagated, calls, loadVars,
                    tileVars, crop_x, crop_y, slab_resized, mask_resized, result,
                    final_result, outVars >>
    /\ UNCHANGED << stages, pasteLog, prevRun >>
    /\ UNCHANGED extVars

\* Line 81: Image.alpha_composite(kitchen, slab_masked).
CompositeStep ==
    /\ pc = "composite"
    /\ IF ~SameSize(kitchen, slab_masked)
       THEN Raise("mismatch") /\ UNCHANGED result
       ELSE /\ result' = AlphaComposite(kitchen, slab_masked)
            /\ pc' = "convert"
            /\ UNCHANGED err
    /\ UNCHANGED << envVars, mainVars, returned, propagated, calls, loadVars,
                    tileVars, crop_x, crop_y, slab_resized, mask_resized,
                    slab_masked, final_result, outVars >>
    /\ stages' = Append(stages, "Composited")
    /\ UNCHANGED << pasteLog, prevRun >>
    /\ UNCHANGED extVars

\* Line 84.
ConvertStep ==
    /\ pc = "convert"
    /\ final_result' = ConvertRGB(result)
    /\ pc' = "save"
    /\ UNCHANGED << envVars, mainVars, err, returned, propagated, calls, loadVars,
                    tileVars, crop_x, crop_y, slab_resized, mask_resized,
                    slab_masked, result, outVars >>
    /\ UNCHANGED << stages, pasteLog, prevRun >>
    /\ UNCHANGED extVars

\* Line 87: the encoder writes the file, or raises (an unwritable
\* destination).
SaveStepSwallowsError ==
    /\ pc = "save"
    /\ \/ outFile' = final_result /\ saveCount' = saveCount + 1
       \/ UNCHANGED outVars
    /\ pc' = "return"
    /\ UNCHANGED << envVars, mainVars, err, returned, propagated, calls, loadVars,
                    tileVars, compVars >>
    /\ stages' = Append(stages, "Saved")
    /\ UNCHANGED << pasteLog, prevRun >>
    /\ UNCHANGED extVars

SaveStep ==
    /\ pc = "save"
    /\ \/ /\ outFile' = final_result
          /\ saveCount' = saveCount + 1
          /\ pc' = "return"
          /\ UNCHANGED err
       \/ Raise("save") /\ UNCHANGED outVars
    /\ UNCHANGED << envVars, mainVars, returned, propagated, calls, loadVars,
                    tileVars, compVars >>
    /\ stages' = Append(stages, "Saved")
    /\ UNCHANGED << pasteLog, prevRun >>
    /\ UNCHANGED extVars

\* Lines 89-91.
ReturnTrue ==
    /\ pc = "return"
    /\ returned' = "True"
    /\ pc' = "done"
    /\ UNCHANGED << envVars, mainVars, err, propagated, calls, loadVars,
                    tileVars, compVars, outVars >>
    /\ UNCHANGED << stages, pasteLog, prevRun >>
    /\ UNCHANGED extVars

\* Lines 93-95: every Exception raised in the try block is caught here and
\* turned into the return value False.
ExceptRetries ==
    /\ pc = "except"
    /\ IF err = "save"
       THEN pc' = "save" /\ err' = "none" /\ UNCHANGED returned
       ELSE returned' = "False" /\ pc' = "done" /\ UNCHANGED err
    /\ UNCHANGED << envVars, mainVars, propagated, calls, loadVars,
                    tileVars, compVars, outVars >>
    /\ UNCHANGED << stages, pasteLog, prevRun >>
    /\ UNCHANGED extVars

ExceptReraises ==
    /\ pc = "except"
    /\ propagated' = TRUE
    /\ pc' = "done"
    /\ UNCHANGED << envVars, mainVars, err, returned, calls, loadVars,
                    tileVars, compVars, outVars >>
    /\ UNCHANGED << stages, pasteLog, prevRun >>
    /\ UNCHANGED extVars

Except ==
    /\ pc = "except"
    /\ returned' = "False"
    /\ pc' = "done"
    /\ UNCHANGED << envVars, mainVars, err, propagated, calls, loadVars,
                    tileVars, compVars, outVars >>
    /\ UNCHANGED << stages, pasteLog, prevRun >>
    /\ UNCHANGED extVars

\* ------------------ the script, replit_countertop_render/main.py
\* The script has no try block: an exception ends the process with a
\* traceback and exit code 1.
Crash(kind) ==
    /\ pc' = "crashed" /\ err' = kind /\ propagated' = TRUE /\ exitCode' = 1

\* Lines 14-16: the three inputs are opened and decoded in order.
ScriptLoad ==
    /\ variant = "script" /\ pc = "idle"
    /\ LET bad == { i \in 1 .. Len(PathOrder) : OpenRaises(files[PathOrder[i]]) }
           upto == IF bad = {} THEN Len(PathOrder)
                   ELSE CHOOSE i \in bad : \A j \in bad : i <= j
       IN  /\ decodeAttempts' =
                { PathOrder[i] : i \in { j \in 1 .. upto :
                      files[PathOrder[j]].status \in {"ok", "corrupt"} } }
           /\ kitchen' = IF upto > 1 \/ bad = {}
                         THEN OpenRGBA("kitchen", files["kitchen"]) ELSE NoImage
           /\ slab' = IF upto > 2 \/ bad = {}
                      THEN OpenRGBA("slab", files["slab"]) ELSE NoImage
           /\ mask' = IF bad = {} THEN OpenL(files["mask"]) ELSE NoImage
           /\ IF bad = {}
              THEN pc' = "s_resize" /\ UNCHANGED << err, propagated, exitCode >>
              ELSE Crash("open")
    /\ UNCHANGED << envVars, mainPc, checked, returned, calls, tileVars,
                    compVars, outVars >>
    /\ UNCHANGED << stages, pasteLog, prevRun >>
    /\ UNCHANGED extVars

\* Line 19: the slab is stretched to the kitchen's size.
ScriptResize ==
    /\ pc = "s_resize"
    /\ slab_resized' = Resize(slab, kitchen.w, kitchen.h)
    /\ pc' = "s_composite"
    /\ UNCHANGED << envVars, mainVars, err, returned, propagated, calls, loadVars,
                    tileVars, crop_x, crop_y, mask_resized, slab_masked, result,
                    final_result, outVars >>
    /\ UNCHANGED << stages, pasteLog, prevRun >>
    /\ UNCHANGED extVars

\* Line 22: Image.composite raises unless the mask has the images' size.
ScriptComposite ==
    /\ pc = "s_composite"
    /\ IF ~SameSize(kitchen, mask)
       THEN Crash("mismatch") /\ UNCHANGED result
       ELSE /\ result' = Composite(slab_resized, kitchen, mask)
            /\ pc' = "s_save"
            /\ UNCHANGED << err, propagated, exitCode >>
    /\ UNCHANGED << envVars, mainPc, checked, returned, calls, loadVars,
                    tileVars, crop_x, crop_y, slab_resized, mask_resized,
                    slab_masked, final_result, outVars >>
    /\ UNCHANGED << stages, pasteLog, prevRun >>
    /\ UNCHANGED extVars

\* Lines 25-26: the result is written as it is, then shown.
ScriptSave ==
    /\ pc = "s_save"
    /\ \/ /\ outFile' = result
          /\ saveCount' = saveCount + 1
          /\ pc' = "s_done"
          /\ exitCode' = 0
          /\ UNCHANGED << err, propagated >>
       \/ Crash("save") /\ UNCHANGED outVars
    /\ UNCHANGED << envVars, mainPc, checked, returned, calls, loadVars,
                    tileVars, compVars >>
    /\ UNCHANGED << stages, pasteLog, prevRun >>
    /\ UNCHANGED extVars

\* ------------------------------------------------- the specification
Next ==
    \/ MainUsage
    \/ MainParse
    \/ MainCheckPath
    \/ MainCall
    \/ MainFinish
    \/ CallDirect
    \/ CallAgain
    \/ LoadKitchen
    \/ LoadSlab
    \/ LoadMask
    \/ TargetSize
    \/ ScaleSlab
    \/ CountTiles
    \/ NewCanvas
    \/ PasteTile
    \/ CropStep
    \/ ResizeMask
    \/ ApplyMask
    \/ CompositeStep
    \/ ConvertStep
    \/ SaveStep
    \/ ReturnTrue
    \/ Except
    \/ ScriptLoad
    \/ ScriptResize
    \/ ScriptComposite
    \/ ScriptSave

Spec == Init /\ [][Next]_vars

\* The interpreter always executes the next statement of a running
\* program: a step that can be taken is eventually taken.
FairSpec == Spec /\ WF_vars(Next)

\* ------------------- two invocations of slab_to_countertop_replacement
\* running at once
Jobs == {1, 2}

\* What a path of the shared disk holds: nothing, one of the input files, or
\* an image that an invocation has saved there.
Missing == [kind |-> "missing"]
OnDisk(name, rec) == [kind |-> "file", name |-> name, rec |-> rec]
Written(im) == [kind |-> "image", im |-> im]

\* Image.open(path).convert("RGBA") on what the path holds now; a saved
\* JPEG has no alpha and opens opaque.
DiskOpenRaises(e) == e.kind = "missing"

DiskOpenRGBA(e) ==
    IF e.kind = "file"
    THEN OpenRGBA(e.name, e.rec)
    ELSE [mode |-> "RGBA", w |-> e.im.w, h |-> e.im.h,
          px |-> [c \in Coords(e.im.w, e.im.h) |->
                    << e.im.px[c][1], e.im.px[c][2], e.im.px[c][3], 255 >>]]

\* Image.open(path).convert("L") on a mask file.
DiskOpenL(e) == OpenL(e.rec)

\* The frame of one invocation: its position and its locals.
NoFrame ==
    [pc |-> "idle", err |-> "none", returned |-> "none",
     kitchen |-> NoImage, slab |-> NoImage, mask |-> NoImage,
     slab_scaled |-> NoImage, slab_tiled |-> NoImage,
     slab_resized |-> NoImage, mask_resized |-> NoImage,
     slab_masked |-> NoImage, result |-> NoImage, final_result |-> NoImage]

\* An exception raised inside the try block of this frame.
Fail(f, kind) == [f EXCEPT !.pc = "except", !.err = kind]

\* Lines 55-57: the pastes of the double loop, x outside and y inside,
\* from paste number i on.
RECURSIVE PasteAll(_, _, _, _, _)
PasteAll(canvas, tile, i, nx, ny) ==
    IF i >= nx * ny
    THEN canvas
    ELSE PasteAll(Paste(canvas, tile, PasteOffset(i \div ny, tile.w),
                                      PasteOffset(i % ny, tile.h)),
                  tile, i + 1, nx, ny)

\* Line 87: the path the result is saved to.
SavePathFixed(a) == "o1"

SavePath(a) == a.output_path

\* One step of an invocation with arguments a, in frame f, on disk d: the
\* frame and the disk after it.  The steps are the statements of lines
\* 29-95, the size computation and the two loops each taken as one step.
JobStep(f, a, d) ==
    LET tw == TileWidth(f.kitchen.w, f.slab.w)
        th == TileHeight(tw, f.slab.w, f.slab.h)
        nx == TileCount(f.kitchen.w, tw)
        ny == TileCount(f.kitchen.h, th)
        Same(g) == [f |-> g, d |-> d]
    IN  CASE f.pc = "load_kitchen" ->
               IF DiskOpenRaises(d[a.kitchen_path])
               THEN Same(Fail(f, "open"))
               ELSE Same([f EXCEPT !.kitchen = DiskOpenRGBA(d[a.kitchen_path]),
                                   !.pc = "load_slab"])
          [] f.pc = "load_slab" ->
               IF DiskOpenRaises(d[a.slab_path])
               THEN Same(Fail(f, "open"))
               ELSE Same([f EXCEPT !.slab = DiskOpenRGBA(d[a.slab_path]),
                                   !.pc = "load_mask"])
          [] f.pc = "load_mask" ->
               IF DiskOpenRaises(d[a.mask_path])
               THEN Same(Fail(f, "open"))
               ELSE Same([f EXCEPT !.mask = DiskOpenL(d[a.mask_path]),
                                   !.pc = "scale"])
          [] f.pc = "scale" ->
               IF ResizeRaises(tw, th)
               THEN Same(Fail(f, "resize"))
               ELSE Same([f EXCEPT !.slab_scaled = Resize(f.slab, tw, th),
                                   !.pc = "tile"])
          [] f.pc = "tile" ->
               Same([f EXCEPT !.slab_tiled =
                                  PasteAll(NewRGBA(nx * tw, ny * th),
                                           f.slab_scaled, 0, nx, ny),
                              !.pc = "crop"])
          [] f.pc = "crop" ->
               Same([f EXCEPT !.slab_resized =
                                  Crop(f.slab_tiled,
                                       CropBox(CropOffset(f.slab_tiled.w, f.kitchen.w),
                                               CropOffset(f.slab_tiled.h, f.kitchen.h),
                                               f.kitchen.w, f.kitchen.h)),
                              !.pc = "mask"])
          [] f.pc = "mask" ->
               Same([f EXCEPT !.mask_resized =
                                  Resize(f.mask, f.kitchen.w, f.kitchen.h),
                              !.pc = "apply"])
          [] f.pc = "apply" ->
               Same([f EXCEPT !.slab_masked =
                                  [f.slab_resized EXCEPT !.px =
                                      [c \in Coords(f.kitchen.w, f.kitchen.h) |->
                                          SetAlpha(f.slab_resized.px[c],
                                                   f.mask_resized.px[c])]],
                              !.pc = "composite"])
          [] f.pc = "composite" ->
               Same([f EXCEPT !.result = AlphaComposite(f.kitchen, f.slab_masked),
                              !.pc = "convert"])
          [] f.pc = "convert" ->
               Same([f EXCEPT !.final_result = ConvertRGB(f.result),
                              !.pc = "save"])
          [] f.pc = "save" ->
               IF a.writable
               THEN [f |-> [f EXCEPT !.pc = "return"],
                     d |-> [d EXCEPT ![SavePath(a)] = Written(f.final_result)]]
               ELSE Same(Fail(f, "save"))
          [] f.pc = "return" ->
               Same([f EXCEPT !.returned = "True", !.pc = "done"])
          [] f.pc = "except" ->
               Same([f EXCEPT !.returned = "False", !.pc = "done"])
          [] OTHER -> Same(f)

\* The call: the frame is entered at line 29.
Entered == [NoFrame EXCEPT !.pc = "load_kitchen"]

\* The input files the two invocations are run on.
ParKitchens ==
    { [status |-> "ok", mode |-> "RGB", w |-> 2, h |-> 2, pat |-> "none"],
      [status |-> "ok", mode |-> "RGBA", w |-> 3, h |-> 1, pat |-> "none"] }
ParSlab  == [status |-> "ok", mode |-> "RGB", w |-> 1, h |-> 1, pat |-> "none"]
ParSlab2 == [status |-> "ok", mode |-> "RGBA", w |-> 2, h |-> 2, pat |-> "none"]
ParMask(kf) == [status |-> "ok", mode |-> "L", w |-> kf.w, h |-> kf.h, pat |-> "ramp"]

\* The disk before the calls: a base image "k", two textures "s" and "t", a
\* mask "m"; the first output path "o1" is free or holds an older picture,
\* the second, "o2", is free.
ParDisks ==
    { [q \in {"k", "s", "t", "m", "o1", "o2"} |->
         CASE q = "k" -> OnDisk("kitchen", kf)
           [] q = "s" -> OnDisk("slab", ParSlab)
           [] q = "t" -> OnDisk("slab", ParSlab2)
           [] q = "m" -> OnDisk("mask", ParMask(kf))
           [] q = "o1" -> old
           [] OTHER -> Missing] :
        kf \in ParKitchens, old \in {Missing, OnDisk("slab", ParSlab2)} }

\* The arguments of the two calls: the output paths are distinct; the
\* second call takes its base image from "k" or from the first call's output
\* path, and either texture; a destination may be unwritable.
ParArgs ==
    { [j \in Jobs |->
         IF j = 1
         THEN [kitchen_path |-> "k", slab_path |-> "s", mask_path |-> "m",
               output_path |-> "o1", writable |-> w1]
         ELSE [kitchen_path |-> k2, slab_path |-> s2, mask_path |-> "m",
               output_path |-> "o2", writable |-> w2]] :
        k2 \in {"k", "o1"}, s2 \in {"s", "t"}, w1 \in BOOLEAN, w2 \in BOOLEAN }

InitPar ==
    /\ variant = "parallel"
    /\ argc = 0
    /\ files = [n \in Names |-> NoFile("missing")]
    /\ Unstarted
    /\ SndIdle
    /\ args \in ParArgs
    /\ disk0 \in ParDisks
    /\ disk = disk0
    /\ job = [j \in Jobs |-> NoFrame]

\* Line 14: invocation j is called.
JobStart(j) ==
    /\ variant = "parallel"
    /\ job[j].pc = "idle"
    /\ job' = [job EXCEPT ![j] = Entered]
    /\ UNCHANGED << envVars, mainVars, ctlVars, loadVars, tileVars, compVars,
                    outVars, histVars, args, disk0, disk, sndVars >>

\* Invocation j executes its next statement.
JobAdvance(j) ==
    /\ variant = "parallel"
    /\ job[j].pc \notin {"idle", "done"}
    /\ LET r == JobStep(job[j], args[j], disk)
       IN  /\ job' = [job EXCEPT ![j] = r.f]
           /\ disk' = r.d
    /\ UNCHANGED << envVars, mainVars, ctlVars, loadVars, tileVars, compVars,
                    outVars, histVars, args, disk0, sndVars >>

NextPar == \E j \in Jobs : JobStart(j) \/ JobAdvance(j)

SpecPar == InitPar /\ [][NextPar]_vars

\* ------------------------------------------------- the sound scripts
\* Everything but the sound scripts' own state.
restVars == << envVars, mainVars, ctlVars, loadVars, tileVars, compVars,
               outVars, histVars, parVars >>

\* play_completion_sound.py line 25.
players == << "mpg123", "mpv", "vlc", "aplay", "paplay" >>

PlayerNames == { players[i] : i \in 1 .. Len(players) }

\* The machines the scripts are run on.
SoundMachines ==
    { [QuietMachine EXCEPT !.prog = "notify", !.file = f, !.which = wh,
                           !.installed = ins, !.status = st, !.pygame = pg] :
        f \in {"ok", "missing"}, wh \in BOOLEAN, ins \in SUBSET PlayerNames,
        st \in {0, 1}, pg \in {"missing", "ok", "broken"} }
    \cup
    { [QuietMachine EXCEPT !.prog = "notify", !.file = f, !.system = sy,
                           !.installed = ins, !.status = st, !.winsound = ws] :
        f \in {"ok", "missing"}, sy \in {"darwin", "windows", "java"},
        ins \in SUBSET {"afplay"}, st \in {0, 1}, ws \in {"ok", "fails"} }
    \cup
    { [QuietMachine EXCEPT !.prog = "notify", !.python3 = py, !.script = sc,
                           !.file = f] :
        py \in {"ok", "missing"}, sc \in {"ok", "missing"},
        f \in {"ok", "missing"} }
    \cup
    { [QuietMachine EXCEPT !.prog = pr, !.file = f, !.ffplay = fp, !.ffmpeg = fm] :
        pr \in {"tcs", "ffmpeg"}, f \in {"ok", "missing"},
        fp \in {"ok", "missing", "denied"}, fm \in {"ok", "missing", "fails"} }

InitSound ==
    /\ variant = "sound"
    /\ argc = 0
    /\ files = [n \in Names |-> NoFile("missing")]
    /\ Unstarted
    /\ ParIdle
    /\ snd \in SoundMachines
    /\ sndPc = CASE snd.prog = "notify" -> "n_run"
                 [] snd.prog = "tcs" -> "t_exists"
                 [] OTHER -> "f_exists"
    /\ player = 0
    /\ probed = << >> /\ launched = << >> /\ running = {}
    /\ played = "none"
    /\ fallbacks = 0
    /\ sndExit = -1
    /\ notifyOut = "none"

\* os.path.exists(sound_file), play_completion_sound.py line 16.
SoundFileAssumed(st) == TRUE

SoundFileExists(st) == st # "missing"

\* audio_file.exists(), task_completion_sound.py lines 18 and 56.
AudioFileAssumed(st) == TRUE

AudioFileExists(st) == st # "missing"

\* A helper returns: the value, and where control goes next.
SndReturn(value, next) == played' = value /\ sndPc' = next

\* task_completion.py lines 20-28: the child is started.  Without python3
\* subprocess.run raises, which line 27 catches; without the script the
\* interpreter exits with code 2; otherwise the child runs play_sound().
NotifyRun ==
    /\ variant = "sound" /\ sndPc = "n_run"
    /\ IF snd.python3 = "missing"
       THEN notifyOut' = "error" /\ sndPc' = "n_done" /\ UNCHANGED sndExit
       ELSE IF snd.script = "missing"
            THEN sndExit' = 2 /\ sndPc' = "n_result" /\ UNCHANGED notifyOut
            ELSE sndPc' = "p_exists" /\ UNCHANGED << sndExit, notifyOut >>
    /\ UNCHANGED << restVars, snd, player, probed, launched, running, played,
                    fallbacks >>

\* play_completion_sound.py lines 16-18.
PlayExists ==
    /\ sndPc = "p_exists"
    /\ IF ~SoundFileExists(snd.file)
       THEN SndReturn("False", "p_exit")
       ELSE sndPc' = "p_system" /\ UNCHANGED played
    /\ UNCHANGED << restVars, snd, player, probed, launched, running,
                    fallbacks, sndExit, notifyOut >>

\* Lines 20-23, 48, 53 and 63-64: the branch for the platform; an unknown
\* platform falls through to "No suitable audio player found".
PlaySystem ==
    /\ sndPc = "p_system"
    /\ CASE snd.system = "linux" ->
              sndPc' = "p_probe" /\ player' = 1 /\ UNCHANGED played
         [] snd.system = "darwin" ->
              sndPc' = "p_afplay" /\ UNCHANGED << player, played >>
         [] snd.system = "windows" ->
              sndPc' = "p_winsound" /\ UNCHANGED << player, played >>
         [] OTHER -> SndReturn("False", "p_exit") /\ UNCHANGED player
    /\ UNCHANGED << restVars, snd, probed, launched, running, fallbacks,
                    sndExit, notifyOut >>

\* Lines 28-30: aplay cannot play an MP3 and is passed over.
SkipPlayerNever(p) == FALSE

SkipPlayer(p) == p = "aplay"

\* Lines 26-33, one iteration of the loop.  Without "which" line 27 raises
\* and line 59 catches; a player that is found and not passed over is run
\* to its end and the function returns True, its exit status unread.
PlayProbe ==
    /\ sndPc = "p_probe"
    /\ IF ~snd.which
       THEN SndReturn("False", "p_exit") /\ UNCHANGED << player, probed, launched >>
       ELSE /\ probed' = Append(probed, players[player])
            /\ IF players[player] \in snd.installed /\ ~SkipPlayer(players[player])
               THEN /\ launched' = Append(launched, players[player])
                    /\ SndReturn("True", "p_exit")
                    /\ UNCHANGED player
               ELSE /\ UNCHANGED << launched, played >>
                    /\ IF player < Len(players)
                       THEN player' = player + 1 /\ UNCHANGED sndPc
                       ELSE sndPc' = "p_pygame" /\ UNCHANGED player
    /\ UNCHANGED << restVars, snd, running, fallbacks, sndExit, notifyOut >>

\* Lines 36-46 and 63-64: without pygame the ImportError is passed and the
\* function ends with False; a pygame that fails raises into line 59.
PlayPygame ==
    /\ sndPc = "p_pygame"
    /\ probed' = Append(probed, "pygame")
    /\ SndReturn(IF snd.pygame = "ok" THEN "True" ELSE "False", "p_exit")
    /\ UNCHANGED << restVars, snd, player, launched, running, fallbacks,
                    sndExit, notifyOut >>

\* Lines 49-51: afplay is run without a look for it; if it is not there
\* subprocess.run raises into line 59.
PlayAfplay ==
    /\ sndPc = "p_afplay"
    /\ IF "afplay" \in snd.installed
       THEN launched' = Append(launched, "afplay") /\ SndReturn("True", "p_exit")
       ELSE SndReturn("False", "p_exit") /\ UNCHANGED launched
    /\ UNCHANGED << restVars, snd, player, probed, running, fallbacks,
                    sndExit, notifyOut >>

\* Lines 54-57.
PlayWinsound ==
    /\ sndPc = "p_winsound"
    /\ SndReturn(IF snd.winsound = "ok" THEN "True" ELSE "False", "p_exit")
    /\ UNCHANGED << restVars, snd, player, probed, launched, running,
                    fallbacks, sndExit, notifyOut >>

\* Lines 66-67: the value of play_sound() is dropped and the script ends.
PlayExitReportsResult ==
    /\ sndPc = "p_exit"
    /\ sndExit' = IF played = "True" THEN 0 ELSE 1
    /\ sndPc' = "n_result"
    /\ UNCHANGED << restVars, snd, player, probed, launched, running, played,
                    fallbacks, notifyOut >>

PlayExit ==
    /\ sndPc = "p_exit"
    /\ sndExit' = 0
    /\ sndPc' = "n_result"
    /\ UNCHANGED << restVars, snd, player, probed, launched, running, played,
                    fallbacks, notifyOut >>

\* task_completion.py lines 23-26.
NotifyResult ==
    /\ sndPc = "n_result"
    /\ notifyOut' = IF sndExit = 0 THEN "stdout" ELSE "failed"
    /\ sndPc' = "n_done"
    /\ UNCHANGED << restVars, snd, player, probed, launched, running, played,
                    fallbacks, sndExit >>

\* task_completion_sound.py lines 18-20.
TcsExists ==
    /\ sndPc = "t_exists"
    /\ IF ~AudioFileExists(snd.file)
       THEN SndReturn("False", "t_exit")
       ELSE sndPc' = "t_popen" /\ UNCHANGED played
    /\ UNCHANGED << restVars, snd, player, probed, launched, running,
                    fallbacks, sndExit, notifyOut >>

\* Lines 44-46: the exception that sends control to play_with_ffmpeg.
FallbackOnAny(exc) == exc # "none"

FallbackOn(exc) == exc = "FileNotFoundError"

\* What subprocess.Popen (line 35) raises for ffplay.
PopenRaises(st) ==
    CASE st = "missing" -> "FileNotFoundError"
      [] st = "denied" -> "PermissionError"
      [] OTHER -> "none"

\* Lines 35-49: ffplay is started and not waited for; the function
\* returns True at once.  If it cannot be started, FileNotFoundError goes
\* to play_with_ffmpeg and any other exception to return False.
TcsPopen ==
    /\ sndPc = "t_popen"
    /\ IF PopenRaises(snd.ffplay) = "none"
       THEN /\ launched' = Append(launched, "ffplay")
            /\ running' = running \cup {"ffplay"}
            /\ SndReturn("True", "t_exit")
            /\ UNCHANGED fallbacks
       ELSE /\ UNCHANGED << launched, running >>
            /\ IF FallbackOn(PopenRaises(snd.ffplay))
               THEN /\ fallbacks' = fallbacks + 1
                    /\ sndPc' = "f_exists"
                    /\ UNCHANGED played
               ELSE SndReturn("False", "t_exit") /\ UNCHANGED fallbacks
    /\ UNCHANGED << restVars, snd, player, probed, sndExit, notifyOut >>

\* Where play_with_ffmpeg returns to: main(), through line 46, or the
\* caller that called it by itself.
AfterFfmpeg == IF snd.prog = "tcs" THEN "t_exit" ELSE "f_done"

\* Lines 54-58.
FfmpegExists ==
    /\ sndPc = "f_exists"
    /\ IF ~AudioFileExists(snd.file)
       THEN SndReturn("False", AfterFfmpeg)
       ELSE sndPc' = "f_run" /\ UNCHANGED played
    /\ UNCHANGED << restVars, snd, player, probed, launched, running,
                    fallbacks, sndExit, notifyOut >>

\* Lines 61-75: ffmpeg is run to its end with check=True; not being there
\* or ending with a status other than 0 raises into line 73.
FfmpegRun ==
    /\ sndPc = "f_run"
    /\ launched' = IF snd.ffmpeg = "missing" THEN launched
                   ELSE Append(launched, "ffmpeg")
    /\ SndReturn(IF snd.ffmpeg = "ok" THEN "True" ELSE "False", AfterFfmpeg)
    /\ UNCHANGED << restVars, snd, player, probed, running, fallbacks,
                    sndExit, notifyOut >>

\* Lines 80-84: main() exits with 1 on failure and falls off its end, exit
\* code 0, on success.
TcsExit ==
    /\ sndPc = "t_exit"
    /\ sndExit' = IF played = "True" THEN 0 ELSE 1
    /\ sndPc' = "t_done"
    /\ UNCHANGED << restVars, snd, player, probed, launched, running, played,
                    fallbacks, notifyOut >>

\* The ffplay process, which nothing waits for, comes to its end.
FfplayEnds ==
    /\ "ffplay" \in running
    /\ running' = running \ {"ffplay"}
    /\ UNCHANGED << restVars, snd, sndPc, player, probed, launched, played,
                    fallbacks, sndExit, notifyOut >>

NextSound ==
    \/ NotifyRun
    \/ PlayExists
    \/ PlaySystem
    \/ PlayProbe
    \/ PlayPygame
    \/ PlayAfplay
    \/ PlayWinsound
    \/ PlayExit
    \/ NotifyResult
    \/ TcsExists
    \/ TcsPopen
    \/ FfmpegExists
    \/ FfmpegRun
    \/ TcsExit
    \/ FfplayEnds

SpecSound == InitSound /\ [][NextSound]_vars




\* ------------------------------------------------------- the claims
BaseW == files["kitchen"].w
BaseH == files["kitchen"].h

AllExist    == \A n \in Names : Exists(files[n])
AllReadable == \A n \in Names : files[n].status = "ok"

\* The function runs in the command-line program and in a direct call.
InFunction == variant \in {"cli", "direct"}

\* An image that is complete and exactly of the base image's size.
BaseSized(im) ==
    /\ im.w = BaseW /\ im.h = BaseH
    /\ DOMAIN im.px = Coords(BaseW, BaseH)

\* C1 (as amended): whenever slab_to_countertop_replacement has built the
\* coverage layer, the composite or the flattened result, each is exactly
\* W x H, and whenever it returns True the image it has written is exactly
\* W x H, for every texture size and mask size.
C1_OutputSize ==
    InFunction =>
        /\ slab_resized # NoImage => BaseSized(slab_resized)
        /\ result # NoImage => BaseSized(result)
        /\ final_result # NoImage => BaseSized(final_result)
        /\ outFile # NoImage => BaseSized(outFile)
        /\ returned = "True" => outFile # NoImage /\ BaseSized(outFile)

C1_Witness ==
    /\ variant = "direct" /\ returned = "True"
    /\ BaseW = MaxW /\ BaseH = MaxH
    /\ files["slab"].w < BaseW /\ files["slab"].h = MaxS
    /\ files["mask"].w # BaseW
    /\ BaseSized(outFile)

\* C1 (as stated): for every base image with W, H >= 1 whose three inputs
\* load and whose output can be written, the function produces an output
\* image of exactly W x H.
C1_Original ==
    (/\ variant = "direct" /\ pc = "done"
     /\ AllReadable /\ BaseW >= 1 /\ BaseH >= 1
     /\ err # "save")
        => outFile # NoImage /\ BaseSized(outFile)

\* C2: at every pixel where the resized mask is 0 the composited pixel is
\* the base image's pixel there, whatever the texture; an all-0 mask gives
\* the base image back.
C2_MaskZeroKeepsBase ==
    (InFunction /\ final_result # NoImage) =>
        /\ \A c \in Coords(BaseW, BaseH) :
              mask_resized.px[c] = 0 =>
                  /\ final_result.px[c] = FileColour("kitchen", c[1], c[2])
                  /\ final_result.px[c] = ToRGB(kitchen.px[c])
        /\ (\A c \in Coords(BaseW, BaseH) : mask_resized.px[c] = 0)
              => final_result = ConvertRGB(kitchen)

C2_Witness ==
    /\ InFunction /\ final_result # NoImage
    /\ files["mask"].pat = "ramp" /\ files["mask"].w = BaseW
    /\ files["slab"].mode = "RGB" /\ files["kitchen"].mode = "RGBA"
    /\ \E c \in Coords(BaseW, BaseH) : mask_resized.px[c] = 0
    /\ \E c \in Coords(BaseW, BaseH) :
          mask_resized.px[c] # 0 /\ final_result.px[c] # ToRGB(kitchen.px[c])

\* C3: at every pixel where the resized mask is 255 the composited pixel
\* has the colour of the coverage layer there, whatever the base pixel and
\* whatever alpha the texture carried; an all-255 mask gives the coverage
\* layer's colours.
C3_MaskFullShowsCoverage ==
    (InFunction /\ final_result # NoImage) =>
        /\ \A c \in Coords(BaseW, BaseH) :
              mask_resized.px[c] = 255 =>
                  final_result.px[c] = ToRGB(slab_resized.px[c])
        /\ (\A c \in Coords(BaseW, BaseH) : mask_resized.px[c] = 255)
              => final_result = ConvertRGB(slab_resized)

C3_Witness ==
    /\ InFunction /\ final_result # NoImage
    /\ files["mask"].pat = "full"
    /\ files["slab"].mode = "RGBA" /\ files["kitchen"].mode = "RGBA"
    /\ \E c \in Coords(BaseW, BaseH) : slab_resized.px[c][4] = 0
    /\ final_result = ConvertRGB(slab_resized)
    /\ final_result # ConvertRGB(kitchen)

\* C4: at a pixel whose mask value m has 0 < m < 255, every colour channel
\* of the output is (m/255)*coverage + (1 - m/255)*base up to a rounding of
\* at most 1, with the base treated as fully opaque.
Abs(n) == IF n < 0 THEN -n ELSE n

C4_LinearBlend ==
    (InFunction /\ final_result # NoImage) =>
        \A c \in Coords(BaseW, BaseH) : \A ch \in 1 .. 3 :
            LET m == mask_resized.px[c]
            IN  (0 < m /\ m < 255) =>
                    Abs(255 * final_result.px[c][ch]
                        - (m * slab_resized.px[c][ch]
                           + (255 - m) * kitchen.px[c][ch])) <= 255


\* C5: the command-line program given a texture path or a mask path that
\* does not exist never calls the compositing function, never runs the save
\* step, leaves no output file, and its only exit code is 1.
C5_MissingInputExits ==
    (/\ variant = "cli" /\ argc = ArgCount
     /\ \/ files["slab"].status = "missing"
        \/ files["mask"].status = "missing")
        => /\ calls = 0 /\ pc = "idle"
           /\ saveCount = 0 /\ outFile = NoImage
           /\ mainPc \in {"start", "check", "exited"}
           /\ exitCode = IF mainPc = "exited" THEN 1 ELSE -1

C5_Witness ==
    /\ variant = "cli" /\ argc = ArgCount
    /\ files["kitchen"].status = "ok" /\ files["slab"].status = "ok"
    /\ files["mask"].status = "missing"
    /\ mainPc = "exited" /\ exitCode = 1 /\ checked = 2
    /\ calls = 0 /\ outFile = NoImage

\* C6: the command-line program exits with code 0 exactly when all three
\* input paths exist and every stage completed without error, and with
\* code 1 otherwise.
C6_ExitCode ==
    (variant = "cli" /\ mainPc = "exited") =>
        /\ exitCode \in {0, 1}
        /\ exitCode = 0 <=>
              /\ argc = ArgCount /\ AllExist
              /\ calls = 1 /\ pc = "done" /\ err = "none"
              /\ saveCount = 1

C6_Witness ==
    /\ variant = "cli" /\ mainPc = "exited" /\ exitCode = 1
    /\ argc = ArgCount /\ AllExist /\ AllReadable
    /\ err = "save" /\ returned = "False"

\* C7 (as amended): in the command-line program, if any of the three input
\* paths does not exist, main reports it and exits 1 before any input is
\* decoded or the function is called; a direct call opens and decodes the
\* inputs in the order kitchen, slab, mask, so it has decoded every input
\* that precedes the first one it cannot open, and then returns False.
FirstBad ==
    CHOOSE i \in 1 .. Len(PathOrder) + 1 :
        /\ i <= Len(PathOrder) => OpenRaises(files[PathOrder[i]])
        /\ \A j \in 1 .. (i - 1) : ~OpenRaises(files[PathOrder[j]])

C7_ChecksBeforeDecoding ==
    /\ (variant = "cli" /\ \E n \in Names : ~Exists(files[n]))
          => /\ decodeAttempts = {} /\ calls = 0
             /\ exitCode = IF mainPc = "exited" THEN 1 ELSE -1
    /\ (variant = "direct" /\ pc = "done" /\ ~AllReadable)
          => /\ returned = "False" /\ err = "open"
             /\ \A j \in 1 .. (FirstBad - 1) : PathOrder[j] \in decodeAttempts
             /\ \A j \in (FirstBad + 1) .. Len(PathOrder) :
                   PathOrder[j] \notin decodeAttempts

C7_Witness ==
    /\ variant = "cli" /\ argc = ArgCount
    /\ files["kitchen"].status = "ok" /\ files["slab"].status = "missing"
    /\ mainPc = "exited" /\ exitCode = 1
    /\ decodeAttempts = {}

\* C7 (as stated): whenever one of the three input paths is no readable
\* file, no input is ever decoded, in the command-line program and in a
\* direct call alike.
C7_Original ==
    (/\ InFunction
     /\ \E n \in Names : files[n].status \in {"missing", "unreadable"})
        => decodeAttempts = {}

\* C8: slab_to_countertop_replacement never lets an error reach its caller;
\* an error raised in any stage ends in the return value False, and a run
\* without error returns True.
C8_NoPropagation ==
    InFunction =>
        /\ ~propagated
        /\ err # "none" => pc \in {"except", "done"}
        /\ pc = "done" =>
              /\ returned \in {"True", "False"}
              /\ returned = "False" <=> err # "none"

C8_Witness ==
    /\ variant = "direct" /\ pc = "done"
    /\ err = "save" /\ returned = "False" /\ ~propagated

\* C9: the function returns True only after the save step has completed
\* exactly once, on the complete W x H composite; a run in which a stage
\* failed never returns True, and nothing is saved twice.
C9_NoPartialSuccess ==
    InFunction =>
        /\ saveCount <= 1
        /\ returned = "True" =>
              /\ saveCount = 1 /\ err = "none"
              /\ outFile = final_result /\ BaseSized(outFile)
        /\ err # "none" => returned # "True"

C9_Witness ==
    /\ InFunction /\ returned = "True" /\ saveCount = 1
    /\ outFile = final_result /\ BaseW * BaseH >= 4

\* C10: in both coverage strategies a coverage layer that has been built is
\* exactly W x H, for every texture size.
C10_CoverageSize ==
    slab_resized # NoImage => BaseSized(slab_resized)

C10_Witness ==
    /\ variant = "script" /\ slab_resized # NoImage
    /\ BaseW = MaxW /\ BaseH = 1
    /\ files["slab"].w = 1 /\ files["slab"].h = MaxS
    /\ BaseSized(slab_resized)

\* C11: with a mask of 255 everywhere no base pixel shows: the crop window
\* lies inside the tiled canvas, every pixel of the coverage layer is the
\* pixel of the resized tile at the window position modulo the tile size
\* (never the canvas's unpainted transparent black), and the output is
\* the coverage layer's colours.
Unpainted == << 0, 0, 0, 0 >>

C11_NoBaseLeak ==
    (InFunction /\ slab_resized # NoImage) =>
        /\ crop_x >= 0 /\ crop_x + BaseW <= slab_tiled.w
        /\ crop_y >= 0 /\ crop_y + BaseH <= slab_tiled.h
        /\ \A c \in Coords(BaseW, BaseH) :
              /\ slab_resized.px[c] # Unpainted
              /\ slab_resized.px[c] =
                     slab_scaled.px[<< (crop_x + c[1]) % slab_scaled.w,
                                       (crop_y + c[2]) % slab_scaled.h >>]
        /\ (/\ final_result # NoImage
            /\ \A c \in Coords(BaseW, BaseH) : mask_resized.px[c] = 255)
              => \A c \in Coords(BaseW, BaseH) :
                    final_result.px[c] = ToRGB(slab_resized.px[c])

C11_Witness ==
    /\ InFunction /\ final_result # NoImage
    /\ files["mask"].pat = "full"
    /\ files["slab"].w = MaxS /\ files["slab"].h = MaxS
    /\ BaseW = MaxW /\ BaseH = MaxH
    /\ files["kitchen"].mode = "RGBA"
    /\ \A c \in Coords(BaseW, BaseH) :
          final_result.px[c] = ToRGB(slab_resized.px[c])
    /\ final_result # ConvertRGB(kitchen)

\* The function as called by main(), by another caller, or twice in a row.
Tiling == variant \in {"cli", "direct", "repeat"}

StageOrder == << "Loaded", "Covered", "Masked", "Composited", "Saved" >>

\* The number of stages entered at each position of the function.
StagesAt(p) ==
    CASE p \in {"idle", "load_kitchen"} -> 0
      [] p \in {"load_slab", "load_mask", "target"} -> 1
      [] p \in {"scale", "tiles", "canvas", "paste", "crop", "mask"} -> 2
      [] p \in {"apply", "composite"} -> 3
      [] p \in {"convert", "save"} -> 4
      [] OTHER -> 5

\* The stage in which each kind of error is raised.
StageOfError(e) ==
    CASE e = "open" -> 1
      [] e \in {"resize", "zerodiv"} -> 2
      [] e = "shape" -> 3
      [] e = "mismatch" -> 4
      [] OTHER -> 5

C13_StageOrder ==
    Tiling =>
        /\ Len(stages) <= Len(StageOrder)
        /\ stages = SubSeq(StageOrder, 1, Len(stages))
        /\ pc \notin {"except", "done"} => Len(stages) = StagesAt(pc)
        /\ err # "none" => Len(stages) = StageOfError(err)
        /\ returned = "True" => stages = StageOrder

C13_Witness ==
    /\ Tiling /\ pc = "done" /\ err = "zerodiv"
    /\ stages = << "Loaded", "Covered" >>
    /\ returned = "False"

\* C14: the mask applier gives every pixel of the coverage layer the alpha
\* of the resized mask at that pixel, and leaves the pixel's three colour
\* channels as they were.
C14_MaskApplied ==
    (Tiling /\ slab_masked # NoImage) =>
        /\ SameSize(slab_masked, slab_resized)
        /\ DOMAIN slab_masked.px = Coords(BaseW, BaseH)
        /\ \A c \in Coords(BaseW, BaseH) :
              /\ slab_masked.px[c][4] = mask_resized.px[c]
              /\ ToRGB(slab_masked.px[c]) = ToRGB(slab_resized.px[c])

C14_Witness ==
    /\ Tiling /\ slab_masked # NoImage
    /\ files["mask"].pat = "ramp" /\ files["mask"].w # BaseW
    /\ files["slab"].mode = "RGBA"
    /\ \E c \in Coords(BaseW, BaseH) :
          /\ slab_resized.px[c][4] # mask_resized.px[c]
          /\ mask_resized.px[c] = 77
          /\ slab_masked.px[c][4] = 77

\* C15: the tile is min(base width / 2, texture width) wide, and its
\* height is tile width * texture height / texture width, truncated; so the
\* tile is never wider than the texture nor than half the base image.
C15_TileSize ==
    (Tiling /\ target_slab_width >= 0) =>
        /\ target_slab_width = Min(kitchen.w \div 2, slab.w)
        /\ target_slab_height = (target_slab_width * slab.h) \div slab.w
        /\ target_slab_width <= slab.w
        /\ 2 * target_slab_width <= kitchen.w

\* The number of whole tiles needed to cover an extent.
Ceil(extent, tile) == (extent + tile - 1) \div tile

\* C16: the number of tiles per axis is the number of whole tiles that fit
\* in the base extent plus two.  That is the number of tiles needed to
\* cover the extent plus one when the tile does not divide the extent, and
\* plus two when it does.
C16_TileCount ==
    (Tiling /\ tiles_x >= 0) =>
        /\ tiles_x = (kitchen.w \div target_slab_width) + 2
        /\ tiles_y = (kitchen.h \div target_slab_height) + 2
        /\ tiles_x = Ceil(kitchen.w, target_slab_width)
                       + (IF kitchen.w % target_slab_width = 0 THEN 2 ELSE 1)
        /\ tiles_y = Ceil(kitchen.h, target_slab_height)
                       + (IF kitchen.h % target_slab_height = 0 THEN 2 ELSE 1)

C16_Witness ==
    /\ Tiling /\ tiles_x >= 0
    /\ kitchen.w % target_slab_width = 0
    /\ tiles_x = Ceil(kitchen.w, target_slab_width) + 2
    /\ kitchen.h % target_slab_height # 0
    /\ tiles_y = Ceil(kitchen.h, target_slab_height) + 1

\* C16 as stated: one tile of margin per axis for every base and tile size.
C16_Original ==
    (Tiling /\ tiles_x >= 0) =>
        /\ tiles_x = Ceil(kitchen.w, target_slab_width) + 1
        /\ tiles_y = Ceil(kitchen.h, target_slab_height) + 1

\* The pastes logged so far whose rectangle holds the canvas pixel c.
PastesOver(c) ==
    { i \in 1 .. Len(pasteLog) :
        /\ pasteLog[i][1] <= c[1] /\ c[1] < pasteLog[i][1] + target_slab_width
        /\ pasteLog[i][2] <= c[2] /\ c[2] < pasteLog[i][2] + target_slab_height }

\* C17: the canvas is tiles_x * tile width by tiles_y * tile height; no
\* pixel is ever written by two pastes, and once the loop is over every
\* pixel has been written by exactly one of tiles_x * tiles_y pastes and
\* holds the tile's pixel at its coordinates modulo the tile size.
C17_HardEdgeGrid ==
    (Tiling /\ slab_tiled # NoImage) =>
        /\ slab_tiled.w = tiles_x * target_slab_width
        /\ slab_tiled.h = tiles_y * target_slab_height
        /\ DOMAIN slab_tiled.px = Coords(slab_tiled.w, slab_tiled.h)
        /\ \A c \in Coords(slab_tiled.w, slab_tiled.h) :
              Cardinality(PastesOver(c)) <= 1
        /\ pc # "paste" =>
              /\ Len(pasteLog) = tiles_x * tiles_y
              /\ \A c \in Coords(slab_tiled.w, slab_tiled.h) :
                    /\ Cardinality(PastesOver(c)) = 1
                    /\ slab_tiled.px[c] =
                          slab_scaled.px[<< c[1] % target_slab_width,
                                            c[2] % target_slab_height >>]

C17_Witness ==
    /\ Tiling /\ pc = "crop"
    /\ target_slab_width = 2 /\ target_slab_height = 2
    /\ Len(pasteLog) = 12
    /\ pasteLog[12] = << 6, 4 >>
    /\ slab_tiled.px[<< 7, 5 >>] = slab_scaled.px[<< 1, 1 >>]
    /\ slab_scaled.px[<< 1, 1 >>] # slab_scaled.px[<< 0, 0 >>]

\* C18: the crop offsets are not negative, the crop window of the base
\* image's size ends within the canvas, the margins before and after it
\* differ by at most one pixel on each axis, and the coverage layer is the
\* canvas under that window.
C18_CentreCrop ==
    (Tiling /\ slab_resized # NoImage) =>
        /\ crop_x >= 0 /\ crop_y >= 0
        /\ crop_x + BaseW <= slab_tiled.w
        /\ crop_y + BaseH <= slab_tiled.h
        /\ Abs(crop_x - (slab_tiled.w - BaseW - crop_x)) <= 1
        /\ Abs(crop_y - (slab_tiled.h - BaseH - crop_y)) <= 1
        /\ BaseSized(slab_resized)
        /\ \A c \in Coords(BaseW, BaseH) :
              slab_resized.px[c] = slab_tiled.px[<< c[1] + crop_x, c[2] + crop_y >>]

C18_Witness ==
    /\ Tiling /\ slab_resized # NoImage
    /\ crop_x = 2 /\ slab_tiled.w - BaseW - crop_x = 2
    /\ crop_y = 1 /\ slab_tiled.h - BaseH - crop_y = 2

\* The source index that a resize of m samples to n samples reads for
\* output index i.
SrcIndex(i, n, m) == ((2 * i + 1) * m) \div (2 * n)

\* C19: the script resizes the texture to exactly the base image's size,
\* each axis by its own factor (base width / texture width across, base
\* height / texture height down), without a slack factor and without a
\* crop: the whole texture is spread over the whole base area.
C19_StretchToBase ==
    (variant = "script" /\ slab_resized # NoImage) =>
        /\ BaseSized(slab_resized)
        /\ \A c \in Coords(BaseW, BaseH) :
              slab_resized.px[c] =
                  slab.px[<< SrcIndex(c[1], BaseW, slab.w),
                             SrcIndex(c[2], BaseH, slab.h) >>]
        /\ (BaseW >= slab.w /\ BaseH >= slab.h) =>
              \A d \in Coords(slab.w, slab.h) :
                  \E c \in Coords(BaseW, BaseH) :
                      << SrcIndex(c[1], BaseW, slab.w),
                         SrcIndex(c[2], BaseH, slab.h) >> = d

C19_Witness ==
    /\ variant = "script" /\ slab_resized # NoImage
    /\ BaseW * slab.h # BaseH * slab.w
    /\ slab.w = 2 /\ slab.h = 2
    /\ slab_resized.px[<< 0, 0 >>] = slab.px[<< 0, 0 >>]
    /\ slab_resized.px[<< BaseW - 1, BaseH - 1 >>] = slab.px[<< 1, 1 >>]
    /\ slab.px[<< 0, 0 >>] # slab.px[<< 1, 1 >>]

\* The larger of two numbers.
Max(a, b) == IF a > b THEN a ELSE b

\* The texture scaled on both axes by max(base width / texture width,
\* base height / texture height) * 1.5 and centre-cropped to the base size.
CoverThenCrop(im, w, h) ==
    LET P  == Max(w * im.h, h * im.w)
        rw == (3 * P) \div (2 * im.h)
        rh == (3 * P) \div (2 * im.w)
    IN  Crop(Resize(im, rw, rh),
             CropBox(CropOffset(rw, w), CropOffset(rh, h), w, h))

\* C19 as stated: one uniform factor with 1.5 of slack, then a centre crop.
C19_Original ==
    (variant = "script" /\ slab_resized # NoImage) =>
        slab_resized = CoverThenCrop(slab, BaseW, BaseH)

\* C20: in every variant the mask is brought to the base image's size
\* before it weights the blend, so that no readable mask, whatever its
\* size, makes the compositing fail.
C20_MaskAnySize ==
    /\ mask_resized # NoImage => BaseSized(mask_resized)
    /\ err \notin {"shape", "mismatch"}

\* C21: the tile is 0 wide exactly when the base image is less than 2 wide
\* and 0 high exactly when tile width * texture height is below the texture
\* width; with such a tile the function gets no further than the tile
\* count, the error is caught, the function returns False, and nothing is
\* composited or saved.
C21_ZeroTileFails ==
    (Tiling /\ target_slab_width >= 0) =>
        /\ target_slab_width = 0 <=> kitchen.w < 2
        /\ target_slab_height = 0 <=> target_slab_width * slab.h < slab.w
        /\ (target_slab_width = 0 \/ target_slab_height = 0) =>
              /\ pc \in {"scale", "tiles", "except", "done"}
              /\ err \in {"none", "resize", "zerodiv"}
              /\ pc = "done" => returned = "False" /\ err # "none"
              /\ returned # "True" /\ ~propagated
              /\ result = NoImage /\ final_result = NoImage
              /\ saveCount = 0 /\ outFile = NoImage
              /\ \A i \in 1 .. Len(stages) :
                    stages[i] \notin {"Composited", "Saved"}

C21_Witness ==
    /\ Tiling /\ pc = "done"
    /\ target_slab_width > 0 /\ target_slab_height = 0
    /\ err = "zerodiv" /\ returned = "False"
    /\ saveCount = 0 /\ result = NoImage

\* C22: in every variant the image that is encoded has three colour
\* channels and no alpha channel, and it has the size of the base image as
\* loaded, which is the size of the base image's file.
C22_FlattenedOutput ==
    outFile # NoImage =>
        /\ outFile.mode = "RGB"
        /\ \A c \in DOMAIN outFile.px : Len(outFile.px[c]) = 3
        /\ outFile.w = BaseW /\ outFile.h = BaseH
        /\ kitchen.w = BaseW /\ kitchen.h = BaseH

\* C25: given a number of arguments other than the program name and four
\* paths, the command-line program exits with code 1 without having
\* checked a path, called the function, decoded or written anything.
C25_UsageExit ==
    (variant = "cli" /\ argc # ArgCount) =>
        /\ mainPc \in {"start", "exited"}
        /\ exitCode = IF mainPc = "exited" THEN 1 ELSE -1
        /\ checked = 0 /\ calls = 0 /\ pc = "idle"
        /\ decodeAttempts = {}
        /\ saveCount = 0 /\ outFile = NoImage

C25_Witness ==
    /\ variant = "cli" /\ argc = ArgCount + 1 /\ AllReadable
    /\ mainPc = "exited" /\ exitCode = 1
    /\ checked = 0 /\ calls = 0

\* C24: every invocation terminates: once started it eventually has
\* returned, either True with every stage up to Saved entered and no error,
\* or False with the error that stopped it; and the paste loops run exactly
\* tiles_x * tiles_y iterations, both numbers fixed before the first one.
C24_Terminates ==
    /\ [](Tiling =>
            /\ pc = "paste" =>
                  /\ tiles_x >= 2 /\ tiles_y >= 2
                  /\ Len(pasteLog) = x * tiles_y + y
                  /\ x < tiles_x /\ y < tiles_y
            /\ Len(pasteLog) > 0 => Len(pasteLog) <= tiles_x * tiles_y)
    /\ [][pc = "paste" => tiles_x' = tiles_x /\ tiles_y' = tiles_y]_vars
    /\ (Tiling /\ pc = "load_kitchen")
          ~> /\ pc = "done"
             /\ \/ returned = "True" /\ err = "none" /\ stages = StageOrder
                \/ returned = "False" /\ err # "none"

C24_Witness ==
    /\ Tiling /\ pc = "done" /\ returned = "True"
    /\ Len(pasteLog) = tiles_x * tiles_y /\ Len(pasteLog) >= 12
    /\ stages = StageOrder

\* Invocation j run alone from the disk as it was before the calls, up to
\* the statement it is at now.
RECURSIVE RunTo(_, _, _, _)
RunTo(f, a, d, target) ==
    IF f.pc = target \/ f.pc = "done"
    THEN [f |-> f, d |-> d]
    ELSE LET r == JobStep(f, a, d) IN RunTo(r.f, a, r.d, target)

Alone(j) == RunTo(Entered, args[j], disk0, job[j].pc)

\* No invocation's output path is an input path of the other.
NoAlias ==
    \A i \in Jobs, j \in Jobs :
        i # j => args[i].output_path \notin
                    {args[j].kitchen_path, args[j].slab_path, args[j].mask_path}

SameAsAlone(j) ==
    job[j].pc # "idle" =>
        /\ job[j] = Alone(j).f
        /\ job[j].pc = "done" =>
              disk[args[j].output_path] = Alone(j).d[args[j].output_path]

\* C23: two invocations whose output paths are distinct, and of which
\* neither writes to a path the other reads, do not affect each other: at
\* every point of every interleaving each has the locals, and at its end
\* the return value and the output file, that it has when it runs alone.
C23_Independent ==
    (variant = "parallel" /\ NoAlias) => \A j \in Jobs : SameAsAlone(j)

C23_Witness ==
    /\ variant = "parallel" /\ NoAlias
    /\ args[2].slab_path = "t"
    /\ job[1].pc = "done" /\ job[1].returned = "True"
    /\ job[2].pc = "save"
    /\ disk["o1"] = Written(job[1].final_result)
    /\ job[2].final_result # job[1].final_result

\* C23 as stated: distinct output paths are enough.
C23_Original ==
    (variant = "parallel" /\ args[1].output_path # args[2].output_path) =>
        \A j \in Jobs : SameAsAlone(j)

\* C26: whenever play_sound has returned False the child script exits with
\* code 0 and notify_task_complete takes its success branch; it prints
\* 'Sound playback failed' only for a child that exited with another code,
\* and it ends normally even when the child cannot be started.
C26_ChildExitsZero ==
    (variant = "sound" /\ snd.prog = "notify") =>
        /\ (played = "False" /\ sndPc \in {"n_result", "n_done"}) => sndExit = 0
        /\ (played = "False" /\ sndPc = "n_done") => notifyOut = "stdout"
        /\ notifyOut = "failed" => sndExit \notin {0, -1}
        /\ sndPc = "n_done" =>
              /\ notifyOut \in {"stdout", "failed", "error"}
              /\ notifyOut = "error" <=> snd.python3 = "missing"
        /\ sndPc # "n_done" => notifyOut = "none"

C26_Witness ==
    /\ variant = "sound" /\ snd.prog = "notify"
    /\ snd.file = "ok" /\ snd.system = "linux" /\ snd.installed = {"aplay"}
    /\ snd.pygame = "missing"
    /\ played = "False" /\ sndPc = "n_done"
    /\ sndExit = 0 /\ notifyOut = "stdout"

\* The players that play_sound may launch on this machine, by their place
\* in the list, and the order in which it looks for anything.
Usable ==
    { i \in 1 .. Len(players) :
        players[i] \in snd.installed /\ players[i] # "aplay" }

FirstUsable == CHOOSE i \in Usable : \A j \in Usable : i <= j

ProbeOrder == players \o << "pygame" >>

\* C27: on Linux play_sound looks for mpg123, mpv, vlc, aplay, paplay in
\* this order, never launches aplay, launches at most one player, the
\* first installed one other than aplay, and then returns True whatever
\* its exit status; pygame is tried only when there is no such player, and
\* without pygame either the function returns False.
C27_LinuxProbe ==
    (variant = "sound" /\ snd.prog = "notify" /\ snd.system = "linux") =>
        /\ Len(probed) <= Len(ProbeOrder)
        /\ probed = SubSeq(ProbeOrder, 1, Len(probed))
        /\ Len(launched) <= 1
        /\ \A i \in 1 .. Len(launched) : launched[i] # "aplay"
        /\ Len(launched) = 1 =>
              /\ Usable # {}
              /\ launched[1] = players[FirstUsable]
              /\ Len(probed) = FirstUsable
              /\ played = "True"
        /\ Len(probed) > Len(players) => Usable = {} /\ launched = << >>
        /\ (/\ sndPc \in {"p_exit", "n_result", "n_done"}
            /\ snd.python3 = "ok" /\ snd.script = "ok"
            /\ snd.file = "ok" /\ snd.which
            /\ Usable = {} /\ snd.pygame = "missing") =>
              /\ played = "False"
              /\ probed = ProbeOrder
        /\ played = "True" =>
              \/ Len(launched) = 1
              \/ snd.pygame = "ok" /\ probed = ProbeOrder

C27_Witness ==
    /\ variant = "sound" /\ snd.prog = "notify" /\ snd.system = "linux"
    /\ snd.installed = {"aplay", "paplay"} /\ snd.status = 1
    /\ probed = players
    /\ launched = << "paplay" >>
    /\ played = "True"

\* C28: when the sound file does not exist, play_sound,
\* play_completion_sound and play_with_ffmpeg return False and no player
\* has been looked for or started.
C28_NoFileNoLaunch ==
    (variant = "sound" /\ snd.file = "missing") =>
        /\ launched = << >> /\ running = {} /\ probed = << >>
        /\ fallbacks = 0
        /\ played # "True"
        /\ sndPc \in {"p_exit", "t_exit", "t_done", "f_done"} => played = "False"
        /\ (/\ sndPc \in {"n_result", "n_done"}
            /\ snd.python3 = "ok" /\ snd.script = "ok") => played = "False"

C28_Witness ==
    /\ variant = "sound" /\ snd.file = "missing"
    /\ snd.prog = "tcs" /\ snd.ffplay = "ok" /\ snd.ffmpeg = "ok"
    /\ sndPc = "t_done" /\ played = "False"
    /\ launched = << >>

\* C29: play_with_ffmpeg is called at most once, and only when starting
\* ffplay raised FileNotFoundError; the step that starts ffplay returns
\* True with ffplay still running; main() exits with code 1 exactly when
\* the value it got is False, and with code 0 otherwise.
C29_FfplayFallback ==
    /\ []((variant = "sound" /\ snd.prog = "tcs") =>
            /\ fallbacks <= 1
            /\ fallbacks = 1 =>
                  /\ snd.ffplay = "missing"
                  /\ \A i \in 1 .. Len(launched) : launched[i] # "ffplay"
            /\ Len(launched) <= 1
            /\ (\E i \in 1 .. Len(launched) : launched[i] = "ffplay") =>
                  played = "True" /\ fallbacks = 0
            /\ sndPc = "t_done" =>
                  /\ played \in {"True", "False"}
                  /\ sndExit = IF played = "False" THEN 1 ELSE 0
            /\ sndPc # "t_done" => sndExit = -1)
    /\ [][(/\ variant = "sound"
           /\ Len(launched') > Len(launched)
           /\ launched'[Len(launched')] = "ffplay") =>
              /\ played' = "True"
              /\ "ffplay" \in running'
              /\ sndPc' = "t_exit"]_vars

C29_Witness ==
    /\ variant = "sound" /\ snd.prog = "tcs"
    /\ sndPc = "t_done" /\ sndExit = 0 /\ played = "True"
    /\ "ffplay" \in running /\ fallbacks = 0

=============================================================================
